---- MODULE Spec2Model ----
(***************************************************************************)
(* Model of the release packager in src/src/main.rs: manifest parsing,     *)
(* the minor-version bump, the textual manifest patch, and the staging /   *)
(* archive / rename sequence of main.                                      *)
(*                                                                         *)
(* Text is a sequence of symbols.  A symbol is one character, except that  *)
(* a few multi-character pieces that the inputs never split (the markup    *)
(* tags "<Version>", "</Version>", ..., and the file-name pieces "lua",    *)
(* "xrnx", "zip", ...) are written as one symbol.  No single-character     *)
(* symbol of a manifest text is "<" or ">", so a literal substring match   *)
(* over symbols is the same as the match over characters.  A reference     *)
(* (&amp;, &#46;) is written character by character.                       *)
(*                                                                         *)
(* A u64 is modelled by its decimal numeral (a sequence of digits without  *)
(* leading zeros): 2^64 does not fit TLC's integers, and the numeral is    *)
(* what semver parses and prints.                                          *)
(***************************************************************************)
EXTENDS Integers, Sequences, FiniteSets, TLC

(***************************************************************************)
(* Characters and numerals                                                 *)
(***************************************************************************)
Digits == {"0", "1", "2", "3", "4", "5", "6", "7", "8", "9"}

Letters ==
    {"a", "b", "c", "d", "e", "f", "g", "h", "i", "j", "k", "l", "m",
     "n", "o", "p", "q", "r", "s", "t", "u", "v", "w", "x", "y", "z",
     "A", "B", "C", "D", "E", "F", "G", "H", "I", "J", "K", "L", "M",
     "N", "O", "P", "Q", "R", "S", "T", "U", "V", "W", "X", "Y", "Z"}

DigitVal(c) ==
    CASE c = "0" -> 0 [] c = "1" -> 1 [] c = "2" -> 2 [] c = "3" -> 3
      [] c = "4" -> 4 [] c = "5" -> 5 [] c = "6" -> 6 [] c = "7" -> 7
      [] c = "8" -> 8 [] c = "9" -> 9

DigitChar(n) ==
    CASE n = 0 -> "0" [] n = 1 -> "1" [] n = 2 -> "2" [] n = 3 -> "3"
      [] n = 4 -> "4" [] n = 5 -> "5" [] n = 6 -> "6" [] n = 7 -> "7"
      [] n = 8 -> "8" [] n = 9 -> "9"

\* u64::MAX = 18446744073709551615, the largest value of Version.minor.
U64MAX ==
    <<"1", "8", "4", "4", "6", "7", "4", "4", "0", "7",
      "3", "7", "0", "9", "5", "5", "1", "6", "1", "5">>

Drop(s, n) == SubSeq(s, n + 1, Len(s))

Take(s, n) == SubSeq(s, 1, n)

RECURSIVE DigitsLE(_, _)
\* a <= b for two digit sequences of the same length.
DigitsLE(a, b) ==
    IF a = <<>> THEN TRUE
    ELSE IF DigitVal(Head(a)) < DigitVal(Head(b)) THEN TRUE
    ELSE IF DigitVal(Head(a)) > DigitVal(Head(b)) THEN FALSE
    ELSE DigitsLE(Tail(a), Tail(b))

\* The numeral fits a u64: checked_mul / checked_add never return None.
FitsU64(n) ==
    \/ Len(n) < Len(U64MAX)
    \/ Len(n) = Len(U64MAX) /\ DigitsLE(n, U64MAX)

RECURSIVE Succ(_)
\* n + 1 on numerals, unbounded.
Succ(n) ==
    IF n = <<>> THEN <<"1">>
    ELSE LET last == n[Len(n)]
             init == Take(n, Len(n) - 1)
         IN  IF last = "9" THEN Succ(init) \o <<"0">>
             ELSE init \o <<DigitChar(DigitVal(last) + 1)>>

\* `minor += 1` without overflow checks (release profile): modulo 2^64.
WrappingAddOne(n) == IF n = U64MAX THEN <<"0">> ELSE Succ(n)

(***************************************************************************)
(* semver::Version::parse, as called by parse_version                      *)
(***************************************************************************)
Err == [ok |-> FALSE]

RECURSIVE LeadingDigits(_)
LeadingDigits(s) ==
    IF s # <<>> /\ Head(s) \in Digits THEN 1 + LeadingDigits(Tail(s)) ELSE 0

\* semver's numeric_identifier: a non-empty run of digits, no leading zero,
\* no overflow of u64; yields the value and the rest of the text.
numeric_identifier(input) ==
    LET len == LeadingDigits(input)
    IN  IF len = 0 THEN Err
        ELSE IF len > 1 /\ input[1] = "0" THEN Err
        ELSE IF ~FitsU64(Take(input, len)) THEN Err
        ELSE [ok |-> TRUE, value |-> Take(input, len), rest |-> Drop(input, len)]

\* semver's dot: the text must go on with '.'.
dot(text) ==
    IF text # <<>> /\ Head(text) = "." THEN [ok |-> TRUE, rest |-> Tail(text)]
    ELSE Err

RECURSIVE identifier(_, _, _, _, _)
\* semver's identifier: the loop over dot-separated segments of a
\* pre-release (isPre) or build-metadata string; acc = accumulated_len,
\* seg = segment_len, nondigit = segment_has_nondigit.
identifier(input, isPre, acc, seg, nondigit) ==
    LET at == acc + seg + 1
        c  == IF at <= Len(input) THEN input[at] ELSE "EOF"
    IN  IF c \in Letters \/ c = "-"
            THEN identifier(input, isPre, acc, seg + 1, TRUE)
        ELSE IF c \in Digits
            THEN identifier(input, isPre, acc, seg + 1, nondigit)
        ELSE IF seg = 0
            THEN IF acc = 0 /\ c # "."
                    THEN [ok |-> TRUE, ident |-> <<>>, rest |-> input]
                    ELSE Err
        ELSE IF isPre /\ seg > 1 /\ ~nondigit /\ input[acc + 1] = "0"
            THEN Err
        ELSE IF c = "."
            THEN identifier(input, isPre, acc + seg + 1, 0, FALSE)
        ELSE [ok |-> TRUE, ident |-> Take(input, acc + seg),
              rest |-> Drop(input, acc + seg)]

\* The tail of Version::from_str after the patch number: [-pre][+build].
VersionSuffix(major, minor, patch, text) ==
    LET hasPre == text # <<>> /\ Head(text) = "-"
        p      == IF hasPre THEN identifier(Tail(text), TRUE, 0, 0, FALSE)
                  ELSE [ok |-> TRUE, ident |-> <<>>, rest |-> text]
    IN  IF ~p.ok \/ (hasPre /\ p.ident = <<>>) THEN Err
        ELSE
        LET hasBuild == p.rest # <<>> /\ Head(p.rest) = "+"
            b == IF hasBuild THEN identifier(Tail(p.rest), FALSE, 0, 0, FALSE)
                 ELSE [ok |-> TRUE, ident |-> <<>>, rest |-> p.rest]
        IN  IF ~b.ok \/ (hasBuild /\ b.ident = <<>>) THEN Err
            ELSE IF b.rest # <<>> THEN Err
            ELSE [ok |-> TRUE, major |-> major, minor |-> minor,
                  patch |-> patch, pre |-> p.ident, build |-> b.ident]

\* Version::parse (strict): major.minor.patch[-pre][+build].
VersionParse(text) ==
    IF text = <<>> THEN Err
    ELSE
    LET ma == numeric_identifier(text)
    IN  IF ~ma.ok THEN Err ELSE
    LET d1 == dot(ma.rest)
    IN  IF ~d1.ok THEN Err ELSE
    LET mi == numeric_identifier(d1.rest)
    IN  IF ~mi.ok THEN Err ELSE
    LET d2 == dot(mi.rest)
    IN  IF ~d2.ok THEN Err ELSE
    LET pa == numeric_identifier(d2.rest)
    IN  IF ~pa.ok THEN Err
        ELSE IF pa.rest = <<>>
            THEN [ok |-> TRUE, major |-> ma.value, minor |-> mi.value,
                  patch |-> pa.value, pre |-> <<>>, build |-> <<>>]
        ELSE VersionSuffix(ma.value, mi.value, pa.value, pa.rest)

\* Display for Version: major.minor.patch, then -pre and +build when not empty.
VersionToString(v) ==
    v.major \o <<".">> \o v.minor \o <<".">> \o v.patch
      \o (IF v.pre # <<>> THEN <<"-">> \o v.pre ELSE <<>>)
      \o (IF v.build # <<>> THEN <<"+">> \o v.build ELSE <<>>)

(***************************************************************************)
(* parse_version                                                           *)
(***************************************************************************)
\* input.find(|c| c == '-' || c == '+'): the first such index, 0 for None.
FindSuffix(input) ==
    LET I == {i \in 1..Len(input) : input[i] \in {"-", "+"}}
    IN  IF I = {} THEN 0 ELSE CHOOSE i \in I : \A j \in I : i <= j

RECURSIVE SplitDot(_, _)
\* base.split('.'): the pieces between dots (cur is the piece being read).
SplitDot(s, cur) ==
    IF s = <<>> THEN <<cur>>
    ELSE IF Head(s) = "." THEN <<cur>> \o SplitDot(Tail(s), <<>>)
    ELSE SplitDot(Tail(s), Append(cur, Head(s)))

\* The count without the filter: empty pieces counted too.
CountComponentsUnfiltered(base) == Len(SplitDot(base, <<>>))

\* base.split('.').filter(|s| !s.is_empty()).count()
CountComponents(base) ==
    LET parts == SplitDot(base, <<>>)
    IN  Cardinality({i \in 1..Len(parts) : parts[i] # <<>>})

RECURSIVE TrimEndDots(_)
\* base.trim_end_matches('.')
TrimEndDots(s) ==
    IF s # <<>> /\ s[Len(s)] = "." THEN TrimEndDots(Take(s, Len(s) - 1)) ELSE s

\* The candidate the fallback of parse_version retries with; <<>> marks the
\* `_ => return Err(e)` arm (no candidate).
Candidate(input) ==
    LET idx   == FindSuffix(input)
        base  == IF idx = 0 THEN input ELSE Take(input, idx - 1)
        rest  == IF idx = 0 THEN <<>> ELSE Drop(input, idx - 1)
        count == CountComponents(base)
    IN  IF count = 1 THEN TrimEndDots(base) \o <<".", "0", ".", "0">> \o rest
        ELSE IF count = 2 THEN TrimEndDots(base) \o <<".", "0">> \o rest
        ELSE <<>>

parse_version(input) ==
    LET strict == VersionParse(input)
    IN  IF strict.ok THEN strict
        ELSE IF Candidate(input) = <<>> THEN Err
        ELSE VersionParse(Candidate(input))

(***************************************************************************)
(* main, lines 35-40: the bump                                             *)
(***************************************************************************)
\* `version.minor += 1` overflows exactly at u64::MAX.
BumpOverflows(v) == v.minor = U64MAX

\* The version after lines 35-39 when the addition does not panic.
Bump(v) ==
    LET w == [v EXCEPT !.minor = WrappingAddOne(v.minor)]
    IN  IF w.build = <<>> /\ w.pre = <<>> THEN [w EXCEPT !.patch = <<"0">>]
        ELSE w

(***************************************************************************)
(* quick_xml::de::from_str into Manifest, and parse_manifest               *)
(***************************************************************************)
None == [some |-> FALSE, val |-> <<>>]

Some(x) == [some |-> TRUE, val |-> x]

\* Start tags of the documents: a root element (with or without its
\* doc_version attribute), the fields of Manifest, and one unknown element.
RootTags == {"<RenoiseScriptingTool>", "<RenoiseScriptingTool doc_version=\"0\">"}

RootEnd == "</RenoiseScriptingTool>"

StringFields == {"<Author>", "<Id>", "<Name>", "<Version>", "<Description>"}

NumberFields == {"<ApiVersion>"}

UnknownTags == {"<Icon>"}

StartTags == StringFields \cup NumberFields \cup UnknownTags

\* Every start tag; any of them can open the document or an unknown subtree.
ElementTags == RootTags \cup StartTags

EndTag(t) ==
    CASE t = "<Author>" -> "</Author>"
      [] t = "<Id>" -> "</Id>"
      [] t = "<Name>" -> "</Name>"
      [] t = "<Version>" -> "</Version>"
      [] t = "<Description>" -> "</Description>"
      [] t = "<ApiVersion>" -> "</ApiVersion>"
      [] t = "<Icon>" -> "</Icon>"
      [] t \in RootTags -> RootEnd

EndTags == {EndTag(t) : t \in ElementTags}

Whitespace == {" ", "\n", "\t", "\r"}

\* Index of the first occurrence of symbol c in s, 0 when there is none.
IndexOf(s, c) ==
    LET I == {i \in 1..Len(s) : s[i] = c}
    IN  IF I = {} THEN 0 ELSE CHOOSE i \in I : \A j \in I : i <= j

RECURSIVE TrimStart(_)
TrimStart(s) ==
    IF s # <<>> /\ Head(s) \in Whitespace THEN TrimStart(Tail(s)) ELSE s

RECURSIVE TrimEnd(_)
TrimEnd(s) ==
    IF s # <<>> /\ s[Len(s)] \in Whitespace THEN TrimEnd(Take(s, Len(s) - 1))
    ELSE s

\* The deserializer trims the text of an element only before it parses a
\* number; the text of a String field is kept as written.
Trim(s) == TrimEnd(TrimStart(s))

RECURSIVE NormalizeEol(_)
\* End-of-line normalisation of a piece of element text: "\r\n" and a
\* lone "\r" become "\n".
NormalizeEol(s) ==
    IF s = <<>> THEN <<>>
    ELSE IF Head(s) = "\r"
        THEN IF Len(s) > 1 /\ s[2] = "\n" THEN <<"\n">> \o NormalizeEol(Drop(s, 2))
             ELSE <<"\n">> \o NormalizeEol(Tail(s))
    ELSE <<Head(s)>> \o NormalizeEol(Tail(s))

RECURSIVE StripZeros(_)
StripZeros(s) ==
    IF Len(s) > 1 /\ Head(s) = "0" THEN StripZeros(Tail(s)) ELSE s

\* u32::MAX = 4294967295.
U32MAX == <<"4", "2", "9", "4", "9", "6", "7", "2", "9", "5">>

\* str::parse::<u32> of an ApiVersion text: digits, an optional leading '+',
\* the value within u32.
ParsesAsU32(text) ==
    LET t == IF text # <<>> /\ Head(text) = "+" THEN Tail(text) ELSE text
        n == StripZeros(t)
    IN  /\ t # <<>>
        /\ \A i \in 1..Len(t) : t[i] \in Digits
        /\ \/ Len(n) < Len(U32MAX)
           \/ Len(n) = Len(U32MAX) /\ DigitsLE(n, U32MAX)

\* The symbols markup starts with.
MarkupStart == ElementTags \cup EndTags \cup {"<!--"}

\* The length of the reference that starts with the '&' at the head of s,
\* its ';' included: the ';' has to come before the next '&' and the next
\* markup.  0 for an '&' that starts no reference (an error of the reader).
RefLen(s) ==
    LET stop == {i \in 2..Len(s) : s[i] \in {";", "&"} \cup MarkupStart}
        i    == IF stop = {} THEN 0 ELSE CHOOSE j \in stop : \A k \in stop : j <= k
    IN  IF i # 0 /\ s[i] = ";" THEN i ELSE 0

\* The characters with the codes 32..95 and 97..126.
Ascii ==
    <<
      " ", "!", "\"", "#", "$", "%", "&", "'", "(", ")", "*", "+",
      ",", "-", ".", "/", "0", "1", "2", "3", "4", "5", "6", "7",
      "8", "9", ":", ";", "<", "=", ">", "?", "@", "A", "B", "C",
      "D", "E", "F", "G", "H", "I", "J", "K", "L", "M", "N", "O",
      "P", "Q", "R", "S", "T", "U", "V", "W", "X", "Y", "Z", "[",
      "\\", "]", "^", "_", "a", "b", "c", "d", "e", "f", "g",
      "h", "i", "j", "k", "l", "m", "n", "o", "p", "q", "r", "s",
      "t", "u", "v", "w", "x", "y", "z", "{", "|", "}", "~" >>

\* The character with a code; a symbol U+code stands for a character
\* outside the table (the grave accent, code 96, among them).
CharOf(code) ==
    IF code = 9 THEN "\t"
    ELSE IF code = 10 THEN "\n"
    ELSE IF code = 13 THEN "\r"
    ELSE IF code \in 32..95 THEN Ascii[code - 31]
    ELSE IF code \in 97..126 THEN Ascii[code - 32]
    ELSE "U+" \o ToString(code)

HexDigits == Digits \cup {"a", "b", "c", "d", "e", "f", "A", "B", "C", "D", "E", "F"}

HexVal(c) ==
    IF c \in Digits THEN DigitVal(c)
    ELSE CASE c \in {"a", "A"} -> 10 [] c \in {"b", "B"} -> 11
           [] c \in {"c", "C"} -> 12 [] c \in {"d", "D"} -> 13
           [] c \in {"e", "E"} -> 14 [] c \in {"f", "F"} -> 15

RECURSIVE NumValue(_, _, _)
\* The number written by digits ds in a radix; a value above the largest
\* code point stays above it.
NumValue(ds, radix, acc) ==
    IF ds = <<>> \/ acc > 1114111 THEN acc
    ELSE NumValue(Tail(ds), radix, acc * radix + HexVal(Head(ds)))

\* The character a reference &name; stands for: one of the five predefined
\* entities, or a character reference (#n decimal, #xh hexadecimal, no
\* sign, a code that is a char and not 0).  Any other name is an error.
ResolveRef(name) ==
    IF name = <<"a", "m", "p">> THEN [ok |-> TRUE, char |-> "&"]
    ELSE IF name = <<"l", "t">> THEN [ok |-> TRUE, char |-> "<"]
    ELSE IF name = <<"g", "t">> THEN [ok |-> TRUE, char |-> ">"]
    ELSE IF name = <<"a", "p", "o", "s">> THEN [ok |-> TRUE, char |-> CharOf(39)]
    ELSE IF name = <<"q", "u", "o", "t">> THEN [ok |-> TRUE, char |-> "\""]
    ELSE IF name # <<>> /\ Head(name) = "#"
        THEN LET hex  == Len(name) > 1 /\ name[2] = "x"
                 ds   == IF hex THEN Drop(name, 2) ELSE Tail(name)
                 good == /\ ds # <<>>
                         /\ \A i \in 1..Len(ds) :
                              ds[i] \in (IF hex THEN HexDigits ELSE Digits)
             IN  IF ~good THEN Err
                 ELSE LET code == NumValue(ds, IF hex THEN 16 ELSE 10, 0)
                      IN  IF code = 0 \/ code > 1114111 \/ code \in 55296..57343
                              THEN Err
                          ELSE [ok |-> TRUE, char |-> CharOf(code)]
    ELSE Err

RECURSIVE SkipMisc(_)
\* Before the root element whitespace and comments are skipped; an unclosed
\* comment is a syntax error (marked by the one-symbol text <<"!">>).
SkipMisc(s) ==
    IF s = <<>> THEN s
    ELSE IF Head(s) \in Whitespace THEN SkipMisc(Tail(s))
    ELSE IF Head(s) = "<!--"
        THEN LET e == IndexOf(s, "-->")
             IN  IF e = 0 THEN <<"!">> ELSE SkipMisc(Drop(s, e))
    ELSE s

RECURSIVE ReadText(_, _, _, _)
\* The text of a field element, read up to its end tag.  A comment and a
\* reference end a piece of text; each piece has its ends of line
\* normalised, a reference gives its character, and all are joined (acc
\* holds what was read, piece the piece being read).  An element inside
\* the field, another end tag, an unclosed comment, an '&' that starts no
\* reference, a reference that does not resolve and the end of the input
\* are errors.
ReadText(s, end, acc, piece) ==
    IF s = <<>> THEN Err
    ELSE IF Head(s) = "<!--"
        THEN LET e == IndexOf(s, "-->")
             IN  IF e = 0 THEN Err
                 ELSE ReadText(Drop(s, e), end, acc \o NormalizeEol(piece), <<>>)
    ELSE IF Head(s) = end
        THEN [ok |-> TRUE, text |-> acc \o NormalizeEol(piece), rest |-> Tail(s)]
    ELSE IF Head(s) \in ElementTags \cup EndTags THEN Err
    ELSE IF Head(s) = "&"
        THEN LET n == RefLen(s)
                 c == ResolveRef(SubSeq(s, 2, n - 1))
             IN  IF n = 0 THEN Err
                 ELSE IF ~c.ok THEN Err
                 ELSE ReadText(Drop(s, n), end,
                               Append(acc \o NormalizeEol(piece), c.char), <<>>)
    ELSE ReadText(Tail(s), end, acc, Append(piece, Head(s)))

RECURSIVE SkipTree(_, _, _)
\* An element that is no field of Manifest is skipped with everything in
\* it; open holds the end tags still expected, innermost first.  An end tag
\* other than the expected one, an unclosed comment, an '&' that starts
\* no reference and the end of the input are errors.  The text the
\* element starts with (lead: no tag met yet, comments aside) is read as
\* text before the skipping, so a reference in it has to resolve; after
\* the first tag a reference is skipped as it is.
SkipTree(s, open, lead) ==
    IF open = <<>> THEN [ok |-> TRUE, rest |-> s]
    ELSE IF s = <<>> THEN Err
    ELSE IF Head(s) = "<!--"
        THEN IF IndexOf(s, "-->") = 0 THEN Err
             ELSE SkipTree(Drop(s, IndexOf(s, "-->")), open, lead)
    ELSE IF Head(s) \in ElementTags
        THEN SkipTree(Tail(s), <<EndTag(Head(s))>> \o open, FALSE)
    ELSE IF Head(s) \in EndTags
        THEN IF Head(s) = Head(open) THEN SkipTree(Tail(s), Tail(open), FALSE)
             ELSE Err
    ELSE IF Head(s) = "&"
        THEN IF RefLen(s) = 0 THEN Err
             ELSE IF lead /\ ~ResolveRef(SubSeq(s, 2, RefLen(s) - 1)).ok THEN Err
             ELSE SkipTree(Drop(s, RefLen(s)), open, lead)
    ELSE SkipTree(Tail(s), open, lead)

RECURSIVE ReadFields(_, _, _)
\* The struct visitor over the children of the root element, up to the end
\* tag of the root (end).  m maps each field seen so far to its text: the
\* text of a String field as ReadText gives it, the empty text included
\* (Some("") for an Option field).  A repeated field and a
\* number that does not parse are errors; an unknown element is skipped,
\* repeated or not; text and comments between the elements are ignored,
\* but a reference in that text has to resolve.
ReadFields(s, m, end) ==
    IF s = <<>> THEN Err
    ELSE IF Head(s) = "<!--"
        THEN LET e == IndexOf(s, "-->")
             IN  IF e = 0 THEN Err ELSE ReadFields(Drop(s, e), m, end)
    ELSE IF Head(s) = end THEN [ok |-> TRUE, fields |-> m]
    ELSE IF Head(s) \in StringFields \cup NumberFields
        THEN LET t == Head(s)
                 r == ReadText(Tail(s), EndTag(t), <<>>, <<>>)
             IN  IF t \in DOMAIN m THEN Err
                 ELSE IF ~r.ok THEN Err
                 ELSE IF t \in NumberFields /\ ~ParsesAsU32(Trim(r.text)) THEN Err
                 ELSE ReadFields(r.rest, (t :> r.text) @@ m, end)
    ELSE IF Head(s) \in ElementTags
        THEN LET r == SkipTree(Tail(s), <<EndTag(Head(s))>>, TRUE)
             IN  IF ~r.ok THEN Err ELSE ReadFields(r.rest, m, end)
    ELSE IF Head(s) \in EndTags THEN Err
    ELSE IF Head(s) = "&"
        THEN LET n == RefLen(s)
             IN  IF n = 0 THEN Err
                 ELSE IF ~ResolveRef(SubSeq(s, 2, n - 1)).ok THEN Err
                 ELSE ReadFields(Drop(s, n), m, end)
    ELSE ReadFields(Tail(s), m, end)

Field(m, t) == IF t \in DOMAIN m THEN Some(m[t]) ELSE None

\* The Manifest made of the fields read (r, the result of ReadFields): the
\* two Option fields main uses, or the DeError of the reading.
ManifestOf(r) ==
    IF ~r.ok THEN Err
    ELSE [ok |-> TRUE, id |-> Field(r.fields, "<Id>"),
          version |-> Field(r.fields, "<Version>")]

\* from_str::<Manifest>: Ok with the Manifest, or a DeError.  The first
\* element of the document is taken as the struct, whatever its name; what
\* follows its end tag is not read.
from_str(contents) ==
    LET s == SkipMisc(contents)
    IN  IF s = <<>> \/ Head(s) \notin ElementTags THEN Err
        ELSE ManifestOf(ReadFields(Tail(s), <<>>, EndTag(Head(s))))

\* lines 101-108, on the result of from_str: map_err(Xml)?, then ok_or for
\* Id and for Version.
RequiredFields(manifest) ==
    IF ~manifest.ok THEN [ok |-> FALSE, err |-> "Xml", id |-> <<>>, version |-> <<>>]
    ELSE IF ~manifest.id.some
        THEN [ok |-> FALSE, err |-> "MissingField(Id)", id |-> <<>>, version |-> <<>>]
    ELSE IF ~manifest.version.some
        THEN [ok |-> FALSE, err |-> "MissingField(Version)", id |-> <<>>, version |-> <<>>]
    ELSE [ok |-> TRUE, err |-> "", id |-> manifest.id.val,
          version |-> manifest.version.val]

\* parse_manifest: Ok((id, version)), Err(Xml) or Err(MissingField(name)).
parse_manifest(contents) == RequiredFields(from_str(contents))

(***************************************************************************)
(* main, lines 42-45: the textual patch                                    *)
(***************************************************************************)
IsPrefix(p, s) == Len(p) <= Len(s) /\ Take(s, Len(p)) = p

RECURSIVE Replace(_, _, _)
\* str::replace: every non-overlapping match of a non-empty pattern, from
\* the left.
Replace(s, from, to) ==
    IF s = <<>> THEN <<>>
    ELSE IF IsPrefix(from, s) THEN to \o Replace(Drop(s, Len(from)), from, to)
    ELSE <<Head(s)>> \o Replace(Tail(s), from, to)

\* format!("<Version>{}</Version>", v)
VersionMarkup(v) == <<"<Version>">> \o v \o <<"</Version>">>

PatchManifest(text, old, new) ==
    Replace(text, VersionMarkup(old), VersionMarkup(new))

(***************************************************************************)
(* Paths.  A path is the sequence of its components (Path::components): a  *)
(* component is a file name (text), ".." or, first in an absolute path,    *)
(* the root "/".                                                           *)
(***************************************************************************)
RootName == <<"/">>

ParentName == <<".", ".">>

RECURSIVE SplitSlash(_, _)
\* The pieces of a path text between its '/' (cur is the piece being read).
SplitSlash(s, cur) ==
    IF s = <<>> THEN <<cur>>
    ELSE IF Head(s) = "/" THEN <<cur>> \o SplitSlash(Tail(s), <<>>)
    ELSE SplitSlash(Tail(s), Append(cur, Head(s)))

\* The components of a path text: the root when it starts with '/', then
\* its pieces, the empty ones and the "." ones left out.
Components(name) ==
    LET kept == SelectSeq(SplitSlash(name, <<>>),
                          LAMBDA c : c # <<>> /\ c # <<".">>)
    IN  IF name # <<>> /\ Head(name) = "/" THEN <<RootName>> \o kept ELSE kept

\* Path::join of a non-empty path: an absolute name replaces the path, a
\* relative one adds its components.
Join(p, name) ==
    IF name # <<>> /\ Head(name) = "/" THEN Components(name)
    ELSE p \o Components(name)

\* Path::parent of a path of two or more components.
Parent(p) == Take(p, Len(p) - 1)

\* Path::file_name of a non-empty path: the last component (main and
\* zip_dir never hold a path that ends in "..").
FileName(p) == p[Len(p)]

\* Path::extension of a file name: the text after the last '.', unless
\* there is no '.' or nothing stands before it; <<"?">> stands for None.
NoExtension == <<"?">>

Extension(name) ==
    LET I == {i \in 1..Len(name) : name[i] = "."}
        d == IF I = {} THEN 0 ELSE CHOOSE i \in I : \A j \in I : j <= i
    IN  IF d <= 1 THEN NoExtension ELSE Drop(name, d)

manifest_path == <<<<"manifest", ".", "xml">>>>

release_dir == <<<<"release">>>>

readme_lower == <<<<"readme", ".", "md">>>>

readme_upper == <<<<"README", ".", "md">>>>

\* format!("{}.xrnx", tool_id)
folder_name(id) == id \o <<".", "xrnx">>

\* release_dir.join(&folder_name)
plugin_dir(id) == Join(release_dir, folder_name(id))

\* release_dir.join(format!("{}.zip", tool_id))
temp_zip(id) == Join(release_dir, id \o <<".", "zip">>)

output_zip(id) == Join(release_dir, folder_name(id))

(***************************************************************************)
(* The file system: a function from the resolved paths (keys) that exist   *)
(* to their nodes.  A key is relative to the working directory and holds   *)
(* no "..", except at its start for what lies above the working            *)
(* directory; a key that starts with the root is an absolute path.  The    *)
(* working directory, its ancestors and the root are directories that      *)
(* always exist and have no node.                                          *)
(***************************************************************************)
Dir == [kind |-> "dir", text |-> <<>>, entries |-> <<>>, zip |-> "none"]

\* A regular file holding text (a manifest, a script, a readme).
TextFile(t) == [kind |-> "file", text |-> t, entries |-> <<>>, zip |-> "none"]

\* A regular file a ZipWriter writes: the entries written so far, and
\* whether finish() has written the central directory ("open"/"finished").
\* An open archive stands for every unfinished content with these entries.
ZipFile(entries, state) ==
    [kind |-> "file", text |-> <<>>, entries |-> entries, zip |-> state]

EmptyFS == <<>>

\* The key of a path that does not resolve (a component is looked up in
\* something that is no directory).
NoPath == <<<<>>>>

ImplicitDir(k) == k = <<RootName>> \/ \A i \in 1..Len(k) : k[i] = ParentName

DirKey(f, k) == ImplicitDir(k) \/ (k \in DOMAIN f /\ f[k].kind = "dir")

RECURSIVE Resolve(_, _, _)
\* Path resolution by the host: cur is the key reached, rest the
\* components still to follow.
Resolve(f, cur, rest) ==
    IF rest = <<>> THEN cur
    ELSE IF ~DirKey(f, cur) THEN NoPath
    ELSE IF Head(rest) = RootName THEN Resolve(f, <<RootName>>, Tail(rest))
    ELSE IF Head(rest) = ParentName
        THEN IF cur = <<RootName>> THEN Resolve(f, cur, Tail(rest))
             ELSE IF cur = <<>> \/ cur[Len(cur)] = ParentName
                 THEN Resolve(f, Append(cur, ParentName), Tail(rest))
             ELSE Resolve(f, Take(cur, Len(cur) - 1), Tail(rest))
    ELSE Resolve(f, Append(cur, Head(rest)), Tail(rest))

Key(f, p) == Resolve(f, <<>>, p)

Exists(f, p) == ImplicitDir(Key(f, p)) \/ Key(f, p) \in DOMAIN f

IsDir(f, p) == DirKey(f, Key(f, p))

IsFile(f, p) == Key(f, p) \in DOMAIN f /\ f[Key(f, p)].kind = "file"

\* The node at a path that exists.
Node(f, p) == f[Key(f, p)]

Put(f, p, node) == (Key(f, p) :> node) @@ f

\* The keys of p and of everything below it.
Under(f, p) == {q \in DOMAIN f : IsPrefix(Key(f, p), q)}

Children(f, p) ==
    {q \in DOMAIN f : Len(q) = Len(Key(f, p)) + 1 /\ IsPrefix(Key(f, p), q)}

RemoveKeys(f, R) == [q \in DOMAIN f \ R |-> f[q]]

\* remove_dir_all that succeeds.
RemoveAll(f, p) == RemoveKeys(f, Under(f, p))

\* What a remove_dir_all that stops early can have removed: entries below
\* p, each with everything below it.
PartialRemovals(f, p) ==
    LET below == Under(f, p) \ {Key(f, p)}
    IN  {R \in SUBSET below :
            \A q \in R : \A r \in below : IsPrefix(q, r) => r \in R}

RECURSIVE MkdirAll(_, _, _)
\* fs::create_dir_all(path): every prefix of the path, from the i-th, is
\* made a directory; it fails where a prefix is a file or does not resolve.
MkdirAll(f, path, i) ==
    IF i > Len(path) THEN [ok |-> TRUE, fs |-> f]
    ELSE LET p == Take(path, i)
         IN  IF IsDir(f, p) THEN MkdirAll(f, path, i + 1)
             ELSE IF Exists(f, p) \/ Key(f, p) = NoPath
                 THEN [ok |-> FALSE, fs |-> f]
             ELSE MkdirAll(Put(f, p, Dir), path, i + 1)

\* A proper part of the symbol at which a write stopped.
Torn == "<torn>"

\* What a write of text t that stops early leaves in the file: the symbols
\* written so far, and a part of the next one when that one is written
\* with more than one character.
PartialTexts(t) ==
    {Take(t, k) : k \in 0..(Len(t) - 1)}
      \cup {Append(Take(t, k - 1), Torn) :
              k \in {i \in 1..Len(t) :
                       t[i] \in ElementTags \cup EndTags \cup {"<!--", "-->"}}}

\* What fs::copy(from, to) can leave: the whole file (done), or, when it
\* fails or the process ends, a file at `to` with a part of the content,
\* or nothing new.
CopyOutcomes(f, from, to) ==
    LET src == Node(f, from)
        partial == IF src.zip = "none"
                       THEN {TextFile(t) : t \in PartialTexts(src.text)}
                   ELSE {ZipFile(<<>>, "open")}
    IN  {[fs |-> Put(f, to, src), done |-> TRUE], [fs |-> f, done |-> FALSE]}
          \cup {[fs |-> Put(f, to, n), done |-> FALSE] : n \in partial}

(***************************************************************************)
(* zip_dir, line 167: the name of an archive entry                         *)
(***************************************************************************)
\* A symbol of a file name that is not valid UTF-8.
NonUtf8 == {"<FF>"}

RECURSIVE JoinSlash(_)
\* The text of a relative path: its components with '/' between them.
JoinSlash(p) ==
    IF p = <<>> THEN <<>>
    ELSE IF Len(p) = 1 THEN p[1]
    ELSE p[1] \o <<"/">> \o JoinSlash(Tail(p))

RECURSIVE ReplaceBackslash(_)
\* .replace('\\', "/")
ReplaceBackslash(s) ==
    IF s = <<>> THEN <<>>
    ELSE <<IF Head(s) = "\\" THEN "/" ELSE Head(s)>> \o ReplaceBackslash(Tail(s))

\* path.strip_prefix(base)?.to_str().unwrap().replace('\\', "/"): "err"
\* when base is no prefix of the path, "panic" when the rest is not UTF-8.
EntryName(path, base) ==
    IF ~IsPrefix(base, path) THEN [outcome |-> "err", name |-> <<>>]
    ELSE LET text == JoinSlash(Drop(path, Len(base)))
         IN  IF \E i \in 1..Len(text) : text[i] \in NonUtf8
                 THEN [outcome |-> "panic", name |-> <<>>]
             ELSE [outcome |-> "ok", name |-> ReplaceBackslash(text)]

\* What zip.start_file + io::copy, or zip.add_directory, append for `path`
\* under the entry name `name`.
ZipEntry(f, path, name) ==
    IF IsFile(f, path)
        THEN [name |-> name, dir |-> FALSE, data |-> Node(f, path)]
    ELSE IF name[Len(name)] = "/"
        THEN [name |-> name, dir |-> TRUE, data |-> Dir]
    ELSE [name |-> name \o <<"/">>, dir |-> TRUE, data |-> Dir]

(***************************************************************************)
(* State of a run of main                                                  *)
(***************************************************************************)
VARIABLES
    pc,            \* the statement of main (or of a callee) to run next
    fs,            \* the file system
    manifest_str,  \* main's locals
    tool_id,
    old_version,
    version,
    new_version,
    todo,          \* entries a read_dir / WalkDir iterator has yet to yield
    result,        \* "running", "ok", "exit" (exit(1)), "err" (main returned
                   \* Err), "panic", "killed"
    error,         \* the error reported
    failedAt,      \* the statement that failed
    faulted,       \* the environment made an I/O call of this run fail
    fs0,           \* the file system when the run started
    runs           \* runs started so far

locals == <<manifest_str, tool_id, old_version, version, new_version>>

vars ==
    <<pc, fs, manifest_str, tool_id, old_version, version, new_version, todo,
      result, error, failedAt, faulted, fs0, runs>>

\* Number of consecutive runs of the tool.
MaxRuns == 2

\* The outcome the environment gives an I/O call.
IoResults == {"ok", "err"}

\* How a call that stops early ends the run: with an error, or with the
\* process terminated during the call.
Stops == {"err", "killed"}

Goto(label) == pc' = label /\ UNCHANGED <<result, error, failedAt>>

Finish(res, e) == pc' = "done" /\ result' = res /\ error' = e /\ failedAt' = pc

\* A `?` on an I/O call that failed: main returns the error.
IoFail(deterministic) ==
    /\ Finish("err", "Io")
    /\ faulted' = (faulted \/ ~deterministic)

\* A call that stopped early.
Stop(how) ==
    IF how = "err" THEN IoFail(FALSE)
    ELSE Finish("killed", "") /\ UNCHANGED faulted

(***************************************************************************)
(* main                                                                    *)
(***************************************************************************)
\* The release directory created before the manifest is looked up.
CheckManifestAfterMkdir ==
    /\ pc = "exists"
    /\ fs' = IF Exists(fs, release_dir) THEN fs ELSE Put(fs, release_dir, Dir)
    /\ IF Exists(fs, manifest_path) THEN Goto("read")
       ELSE Finish("exit", "ManifestNotFound")
    /\ UNCHANGED <<locals, todo, faulted, fs0, runs>>

\* lines 12-16
CheckManifest ==
    /\ pc = "exists"
    /\ IF Exists(fs, manifest_path) THEN Goto("read")
       ELSE Finish("exit", "ManifestNotFound")
    /\ UNCHANGED <<fs, locals, todo, faulted, fs0, runs>>

\* line 18
ReadManifest ==
    /\ pc = "read"
    /\ \E io \in IoResults :
        IF io = "err" \/ ~IsFile(fs, manifest_path)
            THEN IoFail(io = "ok") /\ UNCHANGED manifest_str
        ELSE /\ manifest_str' = Node(fs, manifest_path).text
             /\ Goto("parse_manifest")
             /\ UNCHANGED faulted
    /\ UNCHANGED <<fs, tool_id, old_version, version, new_version, todo, fs0, runs>>

\* lines 20-26
ParseManifest ==
    /\ pc = "parse_manifest"
    /\ LET r == parse_manifest(manifest_str)
       IN  IF r.ok
               THEN /\ tool_id' = r.id
                    /\ old_version' = r.version
                    /\ Goto("parse_version")
           ELSE /\ Finish("exit", r.err)
                /\ UNCHANGED <<tool_id, old_version>>
    /\ UNCHANGED <<fs, manifest_str, version, new_version, todo, faulted, fs0, runs>>

\* lines 28-34
ParseVersion ==
    /\ pc = "parse_version"
    /\ LET r == parse_version(old_version)
       IN  IF r.ok THEN version' = r /\ Goto("bump")
           ELSE Finish("err", "InvalidVersion") /\ UNCHANGED version
    /\ UNCHANGED <<fs, manifest_str, tool_id, old_version, new_version, todo,
                   faulted, fs0, runs>>

\* lines 35-40.  The addition panics under overflow checks (the dev
\* profile) and wraps without them (the release profile).
BumpVersion ==
    /\ pc = "bump"
    /\ \E overflow_checks \in BOOLEAN :
        IF BumpOverflows(version) /\ overflow_checks
            THEN Finish("panic", "Overflow") /\ UNCHANGED <<version, new_version>>
        ELSE /\ version' = Bump(version)
             /\ new_version' = VersionToString(Bump(version))
             /\ Goto("patch")
    /\ UNCHANGED <<fs, manifest_str, tool_id, old_version, todo, faulted, fs0, runs>>

\* lines 42-45
Patch ==
    /\ pc = "patch"
    /\ manifest_str' = PatchManifest(manifest_str, old_version, new_version)
    /\ Goto("write_create")
    /\ UNCHANGED <<fs, tool_id, old_version, version, new_version, todo,
                   faulted, fs0, runs>>

\* line 46, fs::write: File::create truncates the file ...
WriteCreate ==
    /\ pc = "write_create"
    /\ \E io \in IoResults :
        IF io = "err" \/ IsDir(fs, manifest_path)
            THEN IoFail(io = "ok") /\ UNCHANGED fs
        ELSE /\ fs' = Put(fs, manifest_path, TextFile(<<>>))
             /\ Goto("write_all")
             /\ UNCHANGED faulted
    /\ UNCHANGED <<locals, todo, fs0, runs>>

\* ... and write_all writes the text: all of it, or, when a write fails or
\* the process ends during it, the part written until then.
WriteAll ==
    /\ pc = "write_all"
    /\ \/ /\ fs' = Put(fs, manifest_path, TextFile(manifest_str))
          /\ Goto("create_release_dir")
          /\ UNCHANGED faulted
       \/ \E t \in PartialTexts(manifest_str) : \E how \in Stops :
             /\ fs' = Put(fs, manifest_path, TextFile(t))
             /\ Stop(how)
    /\ UNCHANGED <<locals, todo, fs0, runs>>

\* fs::create_dir_all(path): one mkdir for each component that is missing.
\* The directories of the first n components are made; then the call
\* returns (n is all of them), or it stops there: a mkdir fails, or the
\* process ends.
CreateDirAll(path, next) ==
    \E n \in 0..Len(path) : \E how \in {"ok"} \cup Stops :
        LET r == MkdirAll(fs, Take(path, n), 1)
        IN  /\ fs' = r.fs
            /\ \/ ~r.ok /\ how = "ok" /\ IoFail(TRUE)
               \/ r.ok /\ how = "ok" /\ n = Len(path)
                    /\ Goto(next) /\ UNCHANGED faulted
               \/ r.ok /\ how = "err" /\ n < Len(path) /\ Stop(how)
               \/ r.ok /\ how = "killed" /\ Stop(how)

\* lines 48-49
CreateReleaseDir ==
    /\ pc = "create_release_dir"
    /\ CreateDirAll(release_dir, "remove_old")
    /\ UNCHANGED <<locals, todo, fs0, runs>>

\* fs::remove_dir_all(path) of a path that exists.  On a path that is not
\* a directory it fails (ENOTDIR) and removes nothing; stopped early it has
\* removed a part of what is below the path.
RemoveDirAll(path, next) ==
    IF ~IsDir(fs, path) THEN IoFail(TRUE) /\ UNCHANGED fs
    ELSE \/ /\ fs' = RemoveAll(fs, path)
            /\ Goto(next)
            /\ UNCHANGED faulted
         \/ \E R \in PartialRemovals(fs, path) : \E how \in Stops :
               /\ fs' = RemoveKeys(fs, R)
               /\ Stop(how)

\* lines 51-55
RemoveOld ==
    /\ pc = "remove_old"
    /\ IF ~Exists(fs, plugin_dir(tool_id))
           THEN Goto("create_plugin_dir") /\ UNCHANGED <<fs, faulted>>
       ELSE RemoveDirAll(plugin_dir(tool_id), "create_plugin_dir")
    /\ UNCHANGED <<locals, todo, fs0, runs>>

\* line 56
CreatePluginDir ==
    /\ pc = "create_plugin_dir"
    /\ CreateDirAll(plugin_dir(tool_id), "read_dir")
    /\ UNCHANGED <<locals, todo, fs0, runs>>

(***************************************************************************)
(* copy_sources                                                            *)
(***************************************************************************)
\* fs::copy(from, to)?, followed by `next` with `rest` left to iterate.
\* The source has to be a regular file and the target no directory.
CopyFile(from, to, next, rest) ==
    IF ~IsFile(fs, from) \/ IsDir(fs, to) \/ Key(fs, to) = NoPath
        THEN IoFail(TRUE) /\ UNCHANGED <<fs, todo>>
    ELSE \E o \in CopyOutcomes(fs, from, to) : \E how \in Stops :
            /\ fs' = o.fs
            /\ IF o.done THEN Goto(next) /\ todo' = rest /\ UNCHANGED faulted
               ELSE Stop(how) /\ UNCHANGED todo

\* line 135: read_dir(".") lists the entries of the working directory, in
\* an order the host decides.
ReadDir ==
    /\ pc = "read_dir"
    /\ \E io \in IoResults :
        IF io = "err" THEN IoFail(FALSE) /\ UNCHANGED todo
        ELSE /\ todo' = Children(fs, <<>>)
             /\ Goto("copy_loop")
             /\ UNCHANGED faulted
    /\ UNCHANGED <<fs, locals, fs0, runs>>

\* lines 135-142, one iteration: the next entry, copied when its
\* extension is "lua".
CopySource ==
    /\ pc = "copy_loop"
    /\ \E path \in todo : \E io \in IoResults :
        IF io = "err" THEN IoFail(FALSE) /\ UNCHANGED <<fs, todo>>
        ELSE IF Extension(FileName(path)) # <<"lua">>
            THEN /\ todo' = todo \ {path}
                 /\ Goto("copy_loop")
                 /\ UNCHANGED <<fs, faulted>>
        ELSE CopyFile(path, Join(plugin_dir(tool_id), FileName(path)),
                      "copy_loop", todo \ {path})
    /\ UNCHANGED <<locals, fs0, runs>>

\* lines 143-150: the readme, the lower-case name first, always stored as
\* README.md.
CopyReadme ==
    /\ pc = "copy_loop"
    /\ todo = {}
    /\ LET dest == Join(plugin_dir(tool_id), FileName(readme_upper))
           from == IF Exists(fs, readme_lower) THEN readme_lower ELSE readme_upper
       IN  IF ~Exists(fs, from)
               THEN Goto("copy_manifest") /\ UNCHANGED <<fs, todo, faulted>>
           ELSE CopyFile(from, dest, "copy_manifest", todo)
    /\ UNCHANGED <<locals, fs0, runs>>

\* line 59
CopyManifest ==
    /\ pc = "copy_manifest"
    /\ CopyFile(manifest_path, Join(plugin_dir(tool_id), FileName(manifest_path)),
                "zip_create", todo)
    /\ UNCHANGED <<locals, fs0, runs>>

(***************************************************************************)
(* zip_dir(plugin_dir, temp_zip)                                           *)
(***************************************************************************)
\* lines 154-164: dir.file_name() has to be a name, File::create(out), and
\* WalkDir::new(dir) starts.
ZipCreate ==
    /\ pc = "zip_create"
    /\ \E io \in IoResults :
        IF \/ io = "err"
           \/ FileName(plugin_dir(tool_id)) = ParentName
           \/ IsDir(fs, temp_zip(tool_id))
           \/ Key(fs, temp_zip(tool_id)) = NoPath
            THEN IoFail(io = "ok") /\ UNCHANGED <<fs, todo>>
        ELSE /\ fs' = Put(fs, temp_zip(tool_id), ZipFile(<<>>, "open"))
             /\ todo' = Under(fs, plugin_dir(tool_id))
             /\ Goto("zip_loop")
             /\ UNCHANGED faulted
    /\ UNCHANGED <<locals, fs0, runs>>

\* The ZipWriter dropped when zip_dir returns early or panics: the drop
\* finishes the archive with the entries written, unless that fails too.
Dropped(f, out) ==
    {f, Put(f, out, ZipFile(Node(f, out).entries, "finished"))}

\* The entries WalkDir may yield next: a directory before what it holds,
\* the entries of a directory in the order the host lists them (no sort_by).
WalkNext(remaining) ==
    {p \in remaining : \A q \in remaining : q = p \/ ~IsPrefix(q, p)}

\* lines 164-180, one iteration.  The entry's path is dir followed by the
\* entry's place below dir; base is dir.parent().
ZipAdd ==
    /\ pc = "zip_loop"
    /\ \E k \in WalkNext(todo) : \E io \in IoResults :
        LET dir  == plugin_dir(tool_id)
            out  == temp_zip(tool_id)
            base == Parent(dir)
            path == dir \o Drop(k, Len(Key(fs, dir)))
            e    == EntryName(path, base)
        IN  IF io = "err" \/ e.outcome # "ok"
                THEN /\ fs' \in Dropped(fs, out)
                     /\ UNCHANGED todo
                     /\ IF io = "err" THEN IoFail(FALSE)
                        ELSE IF e.outcome = "err" THEN IoFail(TRUE)
                        ELSE Finish("panic", "NonUtf8Path") /\ UNCHANGED faulted
            ELSE /\ fs' = Put(fs, out,
                              ZipFile(Append(Node(fs, out).entries,
                                             ZipEntry(fs, path, e.name)),
                                      "open"))
                 /\ todo' = todo \ {k}
                 /\ Goto("zip_loop")
                 /\ UNCHANGED faulted
    /\ UNCHANGED <<locals, fs0, runs>>

\* zip_dir returning with the archive left unfinished.
ZipFinishSkipped ==
    /\ pc = "zip_loop"
    /\ todo = {}
    /\ Goto("remove_staging")
    /\ UNCHANGED <<fs, locals, todo, faulted, fs0, runs>>

\* lines 181-182: zip.finish().
ZipFinish ==
    /\ pc = "zip_loop"
    /\ todo = {}
    /\ \E io \in IoResults :
        IF io = "err"
            THEN IoFail(FALSE) /\ fs' \in Dropped(fs, temp_zip(tool_id))
        ELSE /\ fs' = Put(fs, temp_zip(tool_id),
                          ZipFile(Node(fs, temp_zip(tool_id)).entries, "finished"))
             /\ Goto("remove_staging")
             /\ UNCHANGED faulted
    /\ UNCHANGED <<locals, todo, fs0, runs>>

(***************************************************************************)
(* main, lines 63-67                                                       *)
(***************************************************************************)
\* line 63
RemoveStaging ==
    /\ pc = "remove_staging"
    /\ IF ~Exists(fs, plugin_dir(tool_id)) THEN IoFail(TRUE) /\ UNCHANGED fs
       ELSE RemoveDirAll(plugin_dir(tool_id), "rename")
    /\ UNCHANGED <<locals, todo, fs0, runs>>

\* lines 64-65: fs::rename moves the file in one step.
Rename ==
    /\ pc = "rename"
    /\ \E io \in IoResults :
        IF \/ io = "err"
           \/ ~Exists(fs, temp_zip(tool_id))
           \/ IsDir(fs, output_zip(tool_id))
           \/ Key(fs, output_zip(tool_id)) = NoPath
            THEN IoFail(io = "ok") /\ UNCHANGED fs
        ELSE /\ fs' = Put(RemoveAll(fs, temp_zip(tool_id)), output_zip(tool_id),
                          Node(fs, temp_zip(tool_id)))
             /\ Goto("report")
             /\ UNCHANGED faulted
    /\ UNCHANGED <<locals, todo, fs0, runs>>

\* lines 66-67
Report ==
    /\ pc = "report"
    /\ Finish("ok", "")
    /\ UNCHANGED <<fs, locals, todo, faulted, fs0, runs>>

(***************************************************************************)
(* The environment                                                         *)
(***************************************************************************)
\* The process is terminated between two steps.
Terminate ==
    /\ pc # "done"
    /\ Finish("killed", "")
    /\ UNCHANGED <<fs, locals, todo, faulted, fs0, runs>>

NoVersion == [ok |-> FALSE]

\* The start of a run on the file system f.
Start(f, n) ==
    /\ pc = "exists"
    /\ fs = f
    /\ manifest_str = <<>>
    /\ tool_id = <<>>
    /\ old_version = <<>>
    /\ version = NoVersion
    /\ new_version = <<>>
    /\ todo = {}
    /\ result = "running"
    /\ error = ""
    /\ failedAt = ""
    /\ faulted = FALSE
    /\ fs0 = f
    /\ runs = n

\* The tool is run again after a release.
Rerun ==
    /\ pc = "done"
    /\ result = "ok"
    /\ runs < MaxRuns
    /\ pc' = "exists"
    /\ manifest_str' = <<>>
    /\ tool_id' = <<>>
    /\ old_version' = <<>>
    /\ version' = NoVersion
    /\ new_version' = <<>>
    /\ todo' = {}
    /\ result' = "running"
    /\ error' = ""
    /\ failedAt' = ""
    /\ faulted' = FALSE
    /\ fs0' = fs
    /\ runs' = runs + 1
    /\ UNCHANGED fs

(***************************************************************************)
(* Inputs of a run: the manifest, the working directory, the release       *)
(* directory                                                               *)
(***************************************************************************)
Elem(tag, text) == <<tag>> \o text \o <<EndTag(tag)>>

Doc(body) ==
    <<"<RenoiseScriptingTool doc_version=\"0\">", "\n">>
      \o Elem("<ApiVersion>", <<"6">>) \o body \o <<"\n", RootEnd, "\n">>

ToolId == <<"T">>

\* 0.18446744073709551615.0
VersionMaxMinor == <<"0", ".">> \o U64MAX \o <<".", "0">>

RunVersions ==
    { <<"1", ".", "2", ".", "3">>,
      <<"0", ".", "9">>,
      <<"1", ".", "2", ".", "3", "-", "b", "e", "t", "a">>,
      <<"1", ".", ".", "2">>,
      VersionMaxMinor }

\* The Id element: absent, empty, blank, a plain name, a name with a
\* directory in front, a name that leads out of the release directory.
IdElems ==
    { <<>>, Elem("<Id>", <<>>), Elem("<Id>", <<" ">>), Elem("<Id>", ToolId),
      Elem("<Id>", <<"a", "/", "b">>), Elem("<Id>", <<".", ".", "/", "x">>) }

\* The Version element: absent, empty, blank, the run versions, a version
\* with white space around it, with a carriage return after it,
\* versions with a comment inside, and versions with a reference (&#46;
\* for the first dot, &amp; at the end).
VersionElems ==
    { <<>>, Elem("<Version>", <<>>), Elem("<Version>", <<"\n", " ">>) }
      \cup { Elem("<Version>", v) : v \in RunVersions }
      \cup { Elem("<Version>", <<" ">> \o v \o <<"\n">>) :
                v \in { <<"1", ".", "2", ".", "3">>, <<"0", ".", "9">> } }
      \cup { Elem("<Version>", <<"1", ".", "2", ".", "3", "\r">>),
             Elem("<Version>", <<"1", ".", "2", "\r", "<!--", "x", "-->", "\n", ".", "3">>),
             Elem("<Version>", <<"1", ".", "2", "<!--", "x", "-->", ".", "3">>),
             Elem("<Version>", <<"1", "&", "#", "4", "6", ";", "2", ".", "3">>),
             Elem("<Version>", <<"1", ".", "2", ".", "3", "&", "a", "m", "p", ";">>) }

\* A manifest whose comment quotes the version markup.
CommentedDocs ==
    { Doc(<<"<!--">> \o VersionMarkup(v) \o <<"-->">> \o Elem("<Id>", ToolId)
            \o Elem("<Version>", v)) : v \in { <<"1", ".", "2", ".", "3">> } }

\* Documents that are no well-formed manifest: an unclosed root, a repeated
\* field, a number that is none, an '&' that starts no reference (in an
\* unknown element, in a field), a reference that does not resolve (in a
\* field, in the text an unknown element starts with).
MalformedDocs ==
    { <<"<RenoiseScriptingTool>">> \o Elem("<Id>", ToolId),
      Doc(Elem("<Id>", ToolId) \o Elem("<Id>", ToolId)),
      <<"<RenoiseScriptingTool>">> \o Elem("<ApiVersion>", <<"x">>)
          \o Elem("<Id>", ToolId) \o <<RootEnd>>,
      Doc(Elem("<Icon>", <<"x", " ", "&", " ", "y">>) \o Elem("<Id>", ToolId)
            \o Elem("<Version>", <<"1", ".", "2", ".", "3">>)),
      Doc(Elem("<Id>", <<"T", "&", "U">>)
            \o Elem("<Version>", <<"1", ".", "2", ".", "3">>)),
      Doc(Elem("<Id>", ToolId) \o Elem("<Version>", <<"1", "&", "d", "o", "t", ";", "2">>)),
      Doc(Elem("<Icon>", <<"x", " ", "&", "f", "o", "o", ";", " ", "y">>)
            \o Elem("<Id>", ToolId)
            \o Elem("<Version>", <<"1", ".", "2", ".", "3">>)),
      Doc(Elem("<Icon>", <<"a", "<!--", "c", "-->", "&", "#", "0", ";">>)
            \o Elem("<Id>", ToolId)
            \o Elem("<Version>", <<"1", ".", "2", ".", "3">>)) }

\* Documents the deserializer accepts beyond the plain ones: a repeated
\* unknown element, a field element nested in an unknown one, text between
\* the fields; an unknown element with a resolving reference in the text it
\* starts with and an unknown entity after an element nested in it; and a
\* document whose root is an Id element.
TolerantDocs ==
    { Doc(Elem("<Icon>", <<"a">>) \o Elem("<Icon>", Elem("<Id>", <<"b">>))
            \o <<"-->">> \o Elem("<Id>", ToolId)
            \o Elem("<Version>", <<"0", ".", "9">>)),
      Doc(Elem("<Icon>", <<"&", "a", "m", "p", ";">> \o Elem("<Icon>", <<>>)
                           \o <<"&", "f", "o", "o", ";">>)
            \o Elem("<Id>", ToolId)
            \o Elem("<Version>", <<"0", ".", "9">>)),
      Elem("<Id>", ToolId) }

\* Every Version element with the plain Id, every Id element without a
\* Version element and with a plain one, and the documents above.
RunDocs ==
    { Doc(Elem("<Id>", ToolId) \o v) : v \in VersionElems }
      \cup { Doc(i \o v) : i \in IdElems,
                v \in { <<>>, Elem("<Version>", <<"1", ".", "2", ".", "3">>) } }
      \cup CommentedDocs \cup MalformedDocs \cup TolerantDocs

\* The manifest part of the initial file system; the first one has none.
ManifestStates == {EmptyFS} \cup { manifest_path :> TextFile(d) : d \in RunDocs }

Lua(stem) == <<stem, ".", "lua">>

WorkDirs ==
    { EmptyFS,
      (<<Lua("a")>> :> TextFile(<<"a">>)) @@ (<<Lua("b")>> :> TextFile(<<"b">>))
          @@ (readme_upper :> TextFile(<<"R">>)),
      (<<Lua("b")>> :> TextFile(<<"b">>)) @@ (readme_lower :> TextFile(<<"r">>))
          @@ (readme_upper :> TextFile(<<"R">>))
          @@ (<<<<"notes", ".", "txt">>>> :> TextFile(<<"n">>)),
      (<<Lua("a")>> :> TextFile(<<"a">>)) @@ (<<<<".", "lua">>>> :> TextFile(<<"h">>)),
      <<<<"a", "\\", "b", ".", "lua">>>> :> TextFile(<<"a">>),
      <<Lua("<FF>")>> :> TextFile(<<"a">>) }

\* What earlier runs for ToolId can have left in the release directory:
\* nothing, the directory alone, a staging directory (a run that failed
\* while copying), the staging directory and an unfinished archive (a run
\* that failed while archiving), the archive of a release.
StaleStaging ==
    (release_dir :> Dir) @@ (plugin_dir(ToolId) :> Dir)
      @@ (Join(plugin_dir(ToolId), Lua("old")) :> TextFile(<<"o">>))

ReleaseStates ==
    { EmptyFS,
      release_dir :> Dir,
      StaleStaging,
      StaleStaging @@ (temp_zip(ToolId) :> ZipFile(<<>>, "open")),
      (release_dir :> Dir)
          @@ (output_zip(ToolId) :>
                ZipFile(<<[name |-> folder_name(ToolId) \o <<"/">>, dir |-> TRUE,
                           data |-> Dir]>>, "finished")) }

Init ==
    \E m \in ManifestStates, w \in WorkDirs, r \in ReleaseStates :
        Start(m @@ w @@ r, 1)

Next ==
    \/ CheckManifest
    \/ ReadManifest
    \/ ParseManifest
    \/ ParseVersion
    \/ BumpVersion
    \/ Patch
    \/ WriteCreate
    \/ WriteAll
    \/ CreateReleaseDir
    \/ RemoveOld
    \/ CreatePluginDir
    \/ ReadDir
    \/ CopySource
    \/ CopyReadme
    \/ CopyManifest
    \/ ZipCreate
    \/ ZipAdd
    \/ ZipFinish
    \/ RemoveStaging
    \/ Rename
    \/ Report
    \/ Terminate
    \/ Rerun

Spec == Init /\ [][Next]_vars

(***************************************************************************)
(* main, lines 28-40, on every version string of a bounded set            *)
(***************************************************************************)
\* Length of the version strings enumerated in full.
MaxLen == 4

\* Dot-separated components of the composed version strings.
MaxComponents == 4

VersionAlphabet == {"0", "1", "2", ".", "-", "+", "a"}

ShortStrings == UNION { [1..n -> VersionAlphabet] : n \in 0..MaxLen }

\* 18446744073709551616 = 2^64 does not fit a u64.
Numerals == { <<"0">>, <<"9">>, U64MAX, Take(U64MAX, 19) \o <<"6">> }

RECURSIVE Bases(_)
Bases(n) ==
    IF n = 1 THEN Numerals
    ELSE { b \o <<".">> \o c : b \in Bases(n - 1), c \in Numerals }

Suffixes ==
    { <<>>,
      <<"-", "b", "e", "t", "a">>,
      <<"+", "b", "u", "i", "l", "d", "5">>,
      <<"-", "r", "c", "1", "+", "b", "5">>,
      <<"-">>,
      <<"+">>,
      <<"-", "0", "1">>,
      <<"-", "a", ".", ".", "b">>,
      <<"-", "a", "-", "b">>,
      <<"+", "b", "+", "c">> }

ComposedStrings ==
    { b \o d \o x : b \in UNION { Bases(n) : n \in 1..MaxComponents },
                    d \in { <<>>, <<".">> }, x \in Suffixes }

VersionInputs == ShortStrings \cup ComposedStrings

InitVersion ==
    \E v \in VersionInputs :
        /\ pc = "parse_version"
        /\ old_version = v
        /\ fs = EmptyFS
        /\ manifest_str = <<>>
        /\ tool_id = <<>>
        /\ version = NoVersion
        /\ new_version = <<>>
        /\ todo = {}
        /\ result = "running"
        /\ error = ""
        /\ failedAt = ""
        /\ faulted = FALSE
        /\ fs0 = EmptyFS
        /\ runs = 1

NextVersion == ParseVersion \/ BumpVersion

SpecVersion == InitVersion /\ [][NextVersion]_vars

(***************************************************************************)
(* Claims                                                                  *)
(***************************************************************************)
\* C1: for every version string parse_version accepts, main renders a
\* bumped version with the same major, minor = old minor + 1, the same
\* pre-release and build metadata, and patch 0 when both are empty and the
\* parsed patch otherwise.
C1_BumpedVersion ==
    LET old == parse_version(old_version)
        new == VersionParse(new_version)
    IN  /\ (old.ok /\ pc = "done") => result # "panic"
        /\ pc = "patch" =>
            /\ new.ok
            /\ new.major = old.major
            /\ new.minor = Succ(old.minor)
            /\ new.pre = old.pre
            /\ new.build = old.build
            /\ new.patch = IF old.pre = <<>> /\ old.build = <<>> THEN <<"0">>
                           ELSE old.patch

\* The part of a version string before its first '-' or '+', and the rest.
C2Base(s) == IF FindSuffix(s) = 0 THEN s ELSE Take(s, FindSuffix(s) - 1)

C2Suffix(s) == IF FindSuffix(s) = 0 THEN <<>> ELSE Drop(s, FindSuffix(s) - 1)

AllDots(t) == \A i \in 1..Len(t) : t[i] = "."

\* The numeric components of a base N.* or N.N.*, <<>> for any other base.
C2Components(base) ==
    LET n1 == LeadingDigits(base)
        r1 == Drop(base, n1)
        n2 == IF r1 = <<>> THEN 0 ELSE LeadingDigits(Tail(r1))
    IN  IF n1 = 0 THEN <<>>
        ELSE IF AllDots(r1) THEN <<Take(base, n1)>>
        ELSE IF Head(r1) = "." /\ n2 > 0 /\ AllDots(Drop(r1, n2 + 1))
            THEN <<Take(base, n1), SubSeq(r1, 2, n2 + 1)>>
        ELSE <<>>

C2Padded(s) ==
    LET c == C2Components(C2Base(s))
    IN  (IF Len(c) = 1 THEN c[1] \o <<".", "0", ".", "0">>
         ELSE c[1] \o <<".">> \o c[2] \o <<".", "0">>) \o C2Suffix(s)

\* No component, 4 or more, or one that is not a number.
C2Unparsable(s) ==
    LET parts == SplitDot(C2Base(s), <<>>)
        full  == {i \in 1..Len(parts) : parts[i] # <<>>}
    IN  \/ Cardinality(full) = 0
        \/ Cardinality(full) >= 4
        \/ \E i \in full : \E k \in 1..Len(parts[i]) : parts[i][k] \notin Digits

\* C2: a version string of 1 or 2 numeric components, trailing dots and an
\* optional '-' or '+' suffix is parsed as the string zero-padded to 3
\* components with the suffix reattached, so "1" bumps like "1.0.0" and
\* "1.2" like "1.2.0"; a string with no component, 4 or more components or
\* a non-numeric component yields an error and no version.
C2_Normalisation ==
    pc # "parse_version" =>
      /\ C2Components(C2Base(old_version)) # <<>> =>
           LET p == VersionParse(C2Padded(old_version))
           IN  IF ~p.ok THEN pc = "done" /\ result = "err" /\ version = NoVersion
               ELSE /\ result # "err"
                    /\ pc = "bump" => version = p
                    /\ pc = "patch" => new_version = VersionToString(Bump(p))
      /\ C2Unparsable(old_version) =>
           pc = "done" /\ result = "err" /\ version = NoVersion
      /\ (pc = "patch" /\ old_version \in {<<"1">>, <<"1", ".", "0", ".", "0">>}) =>
           new_version = <<"1", ".", "1", ".", "0">>
      /\ (pc = "patch" /\ old_version \in {<<"1", ".", "2">>, <<"1", ".", "2", ".", "0">>}) =>
           new_version = <<"1", ".", "3", ".", "0">>

C2_Witness ==
    /\ pc = "patch"
    /\ old_version = <<"1", ".", "-", "a">>
    /\ new_version = <<"1", ".", "1", ".", "0", "-", "a">>

RECURSIVE ReplaceFirst(_, _, _)
\* Only the first match of a non-empty pattern replaced (str::replacen(.., 1)).
ReplaceFirst(s, from, to) ==
    IF s = <<>> THEN <<>>
    ELSE IF IsPrefix(from, s) THEN to \o Drop(s, Len(from))
    ELSE <<Head(s)>> \o ReplaceFirst(Tail(s), from, to)

\* C3: the patched manifest text is the manifest on disk with only the
\* first occurrence of <Version>old</Version> replaced by
\* <Version>new</Version>, every other symbol unchanged (and the text
\* unchanged when there is no occurrence).
C3_FirstOccurrenceOnly ==
    pc = "write_create" =>
        manifest_str = ReplaceFirst(Node(fs, manifest_path).text,
                                    VersionMarkup(old_version),
                                    VersionMarkup(new_version))

RECURSIVE ChildTags(_, _)
\* The start tags of the children of the first element of a document,
\* found by counting the elements open (depth) outside comments.
ChildTags(s, depth) ==
    IF s = <<>> THEN {}
    ELSE IF Head(s) = "<!--"
        THEN IF IndexOf(s, "-->") = 0 THEN {}
             ELSE ChildTags(Drop(s, IndexOf(s, "-->")), depth)
    ELSE IF Head(s) \in ElementTags
        THEN (IF depth = 1 THEN {Head(s)} ELSE {}) \cup ChildTags(Tail(s), depth + 1)
    ELSE IF Head(s) \in EndTags
        THEN IF depth <= 1 THEN {} ELSE ChildTags(Tail(s), depth - 1)
    ELSE ChildTags(Tail(s), depth)

\* C4: a run that fails at the manifest lookup, at manifest parsing or at
\* version parsing ends with a failure result and has changed nothing on
\* the file system (no release directory created, manifest.xml as it
\* was); at manifest parsing the error is the malformed-document error
\* exactly on the documents that are not well-formed, and otherwise names
\* a field that is no child of the root element (Id first).
C4_NoMutationOnEarlyFailure ==
    (pc = "done" /\ result # "killed") =>
      /\ ~Exists(fs0, manifest_path) => failedAt = "exists"
      /\ failedAt = "exists" =>
           result = "exit" /\ error = "ManifestNotFound" /\ fs = fs0
      /\ failedAt = "parse_manifest" =>
           LET text == Node(fs0, manifest_path).text
           IN  /\ result = "exit"
               /\ fs = fs0
               /\ error \in {"Xml", "MissingField(Id)", "MissingField(Version)"}
               /\ error = "Xml" <=> text \in MalformedDocs
               /\ error = "MissingField(Id)" => "<Id>" \notin ChildTags(text, 0)
               /\ error = "MissingField(Version)" =>
                    /\ "<Id>" \in ChildTags(text, 0)
                    /\ "<Version>" \notin ChildTags(text, 0)
      /\ failedAt = "parse_version" =>
           result = "err" /\ error = "InvalidVersion" /\ fs = fs0

C4_Witness ==
    /\ pc = "done"
    /\ failedAt = "parse_manifest"
    /\ error = "MissingField(Id)"
    /\ IsFile(fs, manifest_path)
    /\ ~Exists(fs, release_dir)

\* C5: parse_manifest returns (identifier, version) only when both are
\* non-empty; an Id or Version element with empty or whitespace-only text
\* yields MissingField naming it, like an absent element.
C5_BlankFieldIsMissing ==
    LET m == from_str(manifest_str)
        blank(f) == ~f.some \/ Trim(f.val) = <<>>
    IN  (/\ \/ pc = "parse_version"
            \/ pc = "done" /\ failedAt = "parse_manifest" /\ result = "exit"
         /\ m.ok) =>
            IF blank(m.id) THEN error = "MissingField(Id)"
            ELSE IF blank(m.version) THEN error = "MissingField(Version)"
            ELSE pc = "parse_version" /\ tool_id # <<>> /\ old_version # <<>>

\* A file at a published path (extension xrnx) is a finished archive.
C6_NoPartialArchiveState ==
    \A p \in DOMAIN fs :
        (fs[p].kind = "file" /\ Extension(FileName(p)) = <<"xrnx">>) =>
            fs[p].zip = "finished"

\* A step that puts a file at a published path is the rename of the
\* finished temporary archive.
C6_OnlyByRename ==
    \A p \in DOMAIN fs' :
        (/\ fs'[p].kind = "file"
         /\ Extension(FileName(p)) = <<"xrnx">>
         /\ (p \notin DOMAIN fs \/ fs[p] # fs'[p])) =>
            /\ pc = "rename"
            /\ p = Key(fs, output_zip(tool_id))
            /\ IsFile(fs, temp_zip(tool_id))
            /\ Node(fs, temp_zip(tool_id)).zip = "finished"
            /\ fs'[p] = Node(fs, temp_zip(tool_id))

\* C6: in every state, also after a failure or a termination at any step,
\* no path other than a .zip path holds an unfinished archive, and a
\* published path release/<Id>.xrnx comes to hold an archive file only by
\* the rename of a finished release/<Id>.zip.
C6_AtomicPublish == [](C6_NoPartialArchiveState) /\ [][C6_OnlyByRename]_vars

C6_Witness ==
    /\ pc = "done"
    /\ result \in {"err", "killed"}
    /\ failedAt = "zip_loop"
    /\ Node(fs, temp_zip(tool_id)).zip = "open"
    /\ Len(Node(fs, temp_zip(tool_id)).entries) > 1
    /\ ~IsFile(fs, output_zip(tool_id))

\* C7: a run that finds something at release/<Id>.xrnx, a directory or the
\* archive file of an earlier release, removes it and completes with the
\* new archive at that path (no I/O error, termination or invalid input
\* interfering).
C7_ReplaceOnConflict ==
    (/\ pc = "done"
     /\ result \notin {"killed", "panic", "exit"}
     /\ error # "InvalidVersion"
     /\ ~faulted
     /\ Exists(fs0, output_zip(tool_id))) =>
        /\ result = "ok"
        /\ IsFile(fs, output_zip(tool_id))
        /\ Node(fs, output_zip(tool_id)).zip = "finished"

\* C8: after a successful run the archive holds every top-level .lua file
\* with its content, and its manifest.xml entry is the manifest whose
\* Version field is the bumped version.
C8_ArchiveRoundTrip ==
    (pc = "done" /\ result = "ok") =>
        LET a == Node(fs, output_zip(tool_id)).entries
            inside(name) == FileName(plugin_dir(tool_id)) \o <<"/">> \o name
        IN  /\ \A p \in Children(fs, <<>>) :
                 (IsFile(fs, p) /\ Extension(FileName(p)) = <<"lua">>) =>
                     \E i \in 1..Len(a) :
                         a[i].name = inside(FileName(p)) /\ a[i].data = fs[p]
            /\ \E i \in 1..Len(a) :
                 /\ a[i].name = inside(FileName(manifest_path))
                 /\ parse_manifest(a[i].data.text).ok
                 /\ parse_manifest(a[i].data.text).version = new_version

\* The bytes of the symbols file names are written with.
Bytes(c) ==
    CASE c = " " -> <<32>>
      [] c = "\\" -> <<92>>
      [] c = "x" -> <<120>>
      [] c = "." -> <<46>>
      [] c = "/" -> <<47>>
      [] c = "T" -> <<84>>
      [] c = "a" -> <<97>>
      [] c = "b" -> <<98>>
      [] c = "README" -> <<82, 69, 65, 68, 77, 69>>
      [] c = "lua" -> <<108, 117, 97>>
      [] c = "manifest" -> <<109, 97, 110, 105, 102, 101, 115, 116>>
      [] c = "md" -> <<109, 100>>
      [] c = "xml" -> <<120, 109, 108>>
      [] c = "xrnx" -> <<120, 114, 110, 120>>

RECURSIVE NameBytes(_)
NameBytes(name) ==
    IF name = <<>> THEN <<>> ELSE Bytes(Head(name)) \o NameBytes(Tail(name))

RECURSIVE BytesLess(_, _)
BytesLess(x, y) ==
    IF y = <<>> THEN FALSE
    ELSE IF x = <<>> THEN TRUE
    ELSE IF Head(x) # Head(y) THEN Head(x) < Head(y)
    ELSE BytesLess(Tail(x), Tail(y))

\* C9: the file entries of the archive are written in name-sorted order,
\* whatever order the host lists the directory in.
C9_SortedEntries ==
    (pc = "done" /\ result = "ok") =>
        LET a == Node(fs, output_zip(tool_id)).entries
        IN  \A i, j \in 1..Len(a) :
                (i < j /\ ~a[i].dir /\ ~a[j].dir) =>
                    BytesLess(NameBytes(a[i].name), NameBytes(a[j].name))

\* C10: a run that fails after the release directory was created leaves in
\* it neither a staging directory nor a temporary archive release/<Id>.zip.
C10_NoLeftovers ==
    (/\ pc = "done"
     /\ result = "err"
     /\ failedAt \in {"remove_old", "create_plugin_dir", "read_dir", "copy_loop",
                      "copy_manifest", "zip_create", "zip_loop",
                      "remove_staging", "rename"}
     /\ ~Exists(fs0, plugin_dir(tool_id))
     /\ ~Exists(fs0, temp_zip(tool_id))) =>
        /\ ~IsDir(fs, plugin_dir(tool_id))
        /\ ~Exists(fs, temp_zip(tool_id))

====
